---------------------------- MODULE Spec2Model ----------------------------
(***************************************************************************)
(* A model of PNGme's chunk core: ChunkType (chunk_type.rs), Chunk         *)
(* (chunk.rs) and the chunk container Png used by commands.rs.             *)
(*                                                                         *)
(* Bytes are naturals in 0..255.  A u32 is the set of its set bit          *)
(* positions (a subset of 0..31), so that xor and shifts are exact over    *)
(* the full 32-bit width.  A Rust String / &str is the sequence of its     *)
(* UTF-8 bytes.  A Result is a record [tag, val, err]; a panic (unwrap /   *)
(* expect / slice index / split_off) is the tag "Panic".                   *)
(***************************************************************************)
EXTENDS Naturals, Sequences, FiniteSets

VARIABLES
    ctInput,    \* the argument handed to a ChunkType constructor
    ctResult,   \* what the constructor returned
    chunk,      \* the Chunk built by Chunk::new
    buf,        \* the byte buffer handed to Chunk::try_from
    tamper,     \* what was done to buf after as_bytes wrote it
    decoded,    \* what Chunk::try_from returned
    pc,         \* position in the encode / decode run
    png,        \* the Png's chunk sequence
    pngLog      \* the Png operations of the run, each with argument and result

vars == <<ctInput, ctResult, chunk, buf, tamper, decoded, pc, png, pngLog>>

(***************************************************************************)
(* Bounds of the model.                                                    *)
(***************************************************************************)
\* longest &str handed to ChunkType::from_str
MaxStrLen == 5
\* longest payload handed to Chunk::new
MaxData == 2
\* most chunks in a Png read from a file
MaxChunks == 3
\* most Png operations in one run
MaxOps == 2

(***************************************************************************)
(* Results.                                                                *)
(***************************************************************************)
None == [tag |-> "None", val |-> <<>>, err |-> ""]

Ok(v) == [tag |-> "Ok", val |-> v, err |-> ""]

Err(e) == [tag |-> "Err", val |-> <<>>, err |-> e]

Panic(e) == [tag |-> "Panic", val |-> <<>>, err |-> e]

\* no constructor called yet
NoInput == [kind |-> "none", val |-> <<>>]

\* the buffer is as as_bytes wrote it
NoTamper == [kind |-> "none", at |-> 0, bit |-> 0]

(***************************************************************************)
(* Helpers on sequences and u32 words.                                     *)
(***************************************************************************)
Byte == 0..255

RECURSIVE SumBits(_, _)
\* the number whose set bits are those of S, each moved down by shift
SumBits(S, shift) ==
    IF S = {} THEN 0
    ELSE LET i == CHOOSE x \in S : TRUE
         IN  2^(i - shift) + SumBits(S \ {i}, shift)

\* usize -> u32 (as u32): the low 32 bits; the model's lengths are below 2^31
U32OfNat(n) == {i \in 0..30 : (n \div 2^i) % 2 = 1}

\* the bits of one byte placed at bit position shift of a u32
BitsAt(b, shift) == {i + shift : i \in {j \in 0..7 : (b \div 2^j) % 2 = 1}}

\* the byte found at bit position shift of a u32
ByteAt(w, shift) == SumBits({i \in w : i >= shift /\ i <= shift + 7}, shift)

Xor(a, b) == (a \ b) \cup (b \ a)

Shr(w, n) == {i - n : i \in {j \in w : j >= n}}

Not32(w) == (0..31) \ w

\* u32::from_be_bytes
from_be_bytes(b) ==
    BitsAt(b[1], 24) \cup BitsAt(b[2], 16) \cup BitsAt(b[3], 8) \cup BitsAt(b[4], 0)

\* u32::to_be_bytes
to_be_bytes(w) == <<ByteAt(w, 24), ByteAt(w, 16), ByteAt(w, 8), ByteAt(w, 0)>>

\* sequence[from..to] of Rust, 0-based and half open
Slice(s, from, to) == SubSeq(s, from + 1, to)

(***************************************************************************)
(* crc::crc32::checksum_ieee (crate crc 1.x): table driven, reflected,     *)
(* polynomial 0xEDB88320, initial value and final xor 0xFFFFFFFF.          *)
(***************************************************************************)
\* 0xEDB88320
IEEE == {5, 8, 9, 15, 19, 20, 21, 23, 24, 26, 27, 29, 30, 31}

RECURSIVE TableStep(_, _)
TableStep(value, n) ==
    IF n = 0 THEN value
    ELSE TableStep(IF 0 \in value THEN Xor(Shr(value, 1), IEEE) ELSE Shr(value, 1),
                   n - 1)

\* make_table(IEEE)
IEEE_TABLE == [i \in Byte |-> TableStep(BitsAt(i, 0), 8)]

RECURSIVE Update(_, _, _)
\* the loop of crc32::update over bytes[k..]
Update(value, bytes, k) ==
    IF k > Len(bytes) THEN value
    ELSE Update(Xor(IEEE_TABLE[ByteAt(Xor(value, BitsAt(bytes[k], 0)), 0)],
                    Shr(value, 8)),
                bytes, k + 1)

checksum_ieee(bytes) == Not32(Update(Not32({}), bytes, 1))

(***************************************************************************)
(* chunk_type.rs                                                           *)
(***************************************************************************)
\* struct ChunkType; TryFrom<[u8; 4]> never fails and validates nothing
ChunkTypeTryFrom(value) ==
    Ok([first_byte |-> value[1], second_byte |-> value[2],
        third_byte |-> value[3], fourth_byte |-> value[4]])

is_valid_byte(b) == (65 <= b /\ b <= 90) \/ (97 <= b /\ b <= 122)

is_upper(b) == 65 <= b /\ b <= 90

\* the mutant: the reserved byte checked like the others
is_reserved_bit_valid_AnyLetter(ct) == is_valid_byte(ct.third_byte)

is_reserved_bit_valid(ct) == is_upper(ct.third_byte)

\* the mutant: safe-to-copy read off the wrong case
is_safe_to_copy_Upper(ct) == is_upper(ct.fourth_byte)

is_safe_to_copy(ct) == ~is_upper(ct.fourth_byte)

is_critical(ct) == is_upper(ct.first_byte)

is_public(ct) == is_upper(ct.second_byte)

is_valid(ct) ==
    /\ is_valid_byte(ct.first_byte)
    /\ is_valid_byte(ct.second_byte)
    /\ is_reserved_bit_valid(ct)
    /\ is_valid_byte(ct.fourth_byte)

\* ChunkType::bytes
bytes(ct) == <<ct.first_byte, ct.second_byte, ct.third_byte, ct.fourth_byte>>

\* b as char written to a String: the UTF-8 encoding of U+0000..U+00FF
CharUtf8(b) == IF b < 128 THEN <<b>> ELSE <<192 + (b \div 64), 128 + (b % 64)>>

\* impl Display for ChunkType, as the bytes of to_string()
to_string(ct) ==
    CharUtf8(ct.first_byte) \o CharUtf8(ct.second_byte)
        \o CharUtf8(ct.third_byte) \o CharUtf8(ct.fourth_byte)

\* impl FromStr for ChunkType: s is the byte sequence of the &str
from_str(s) ==
    IF Len(s) < 4 THEN Panic("unwrap on None")
    ELSE LET result == [first_byte |-> s[1], second_byte |-> s[2],
                        third_byte |-> s[3], fourth_byte |-> s[4]]
         IN  IF /\ is_valid_byte(result.first_byte)
                /\ is_valid_byte(result.second_byte)
                /\ is_valid_byte(result.third_byte)
                /\ is_valid_byte(result.fourth_byte)
             THEN Ok(result)
             ELSE Err("Not a valid Chunk Byte")

(***************************************************************************)
(* chunk.rs                                                                *)
(***************************************************************************)
\* the mutant: the checksum taken over the payload alone
ChunkNew_NoType(chunk_type, message_bytes) ==
    [data_length   |-> U32OfNat(Len(message_bytes)),
     chunk_type    |-> chunk_type,
     message_bytes |-> message_bytes,
     crc           |-> checksum_ieee(message_bytes)]

\* Chunk::new
ChunkNew(chunk_type, message_bytes) ==
    LET check_bytes == bytes(chunk_type) \o message_bytes
    IN  [data_length   |-> U32OfNat(Len(message_bytes)),
         chunk_type    |-> chunk_type,
         message_bytes |-> message_bytes,
         crc           |-> checksum_ieee(check_bytes)]

\* the type field as_bytes writes: self.chunk_type.to_string().as_bytes()
TypeField(c) == to_string(c.chunk_type)

\* Chunk::as_bytes
as_bytes(c) ==
    to_be_bytes(c.data_length) \o TypeField(c) \o c.message_bytes
        \o to_be_bytes(c.crc)

\* data_length as usize > n, for the buffer lengths n of the model (below 2^31)
Exceeds(w, n) == 31 \in w \/ SumBits(w, 0) > n

\* the mutant: no comparison with the stored CRC
CrcMismatch_Never(check_bytes, crc) == FALSE

\* the test of chunk.rs line 31
CrcMismatch(check_bytes, crc) == checksum_ieee(check_bytes) # crc

\* Vec<u8> -> [u8; 4] by try_into: only a Vec of exactly 4 bytes converts
CrcFieldOk(tail) == Len(tail) = 4

\* impl TryFrom<&[u8]> for Chunk
ChunkTryFrom(sequence) ==
    IF Len(sequence) < 4 THEN Panic("range end index 4 out of range")
    ELSE IF Len(sequence) < 8 THEN Panic("range end index 8 out of range")
    ELSE
      LET data_length == from_be_bytes(Slice(sequence, 0, 4))
          chunk_type  == ChunkTypeTryFrom(Slice(sequence, 4, 8)).val
          all_bytes   == Slice(sequence, 8, Len(sequence))
      IN  IF Exceeds(data_length, Len(all_bytes))
          THEN Panic("split_off: at > len")
          ELSE
            LET at            == SumBits(data_length, 0)
                message_bytes == SubSeq(all_bytes, 1, at)
                tail          == SubSeq(all_bytes, at + 1, Len(all_bytes))
            IN  IF ~CrcFieldOk(tail) THEN Panic("invalid sequence")
                ELSE
                  LET crc == from_be_bytes(tail)
                      check_bytes == Slice(sequence, 4, Len(sequence) - 4)
                  IN  IF CrcMismatch(check_bytes, crc)
                      THEN Err("checksum failed")
                      ELSE Ok([data_length   |-> data_length,
                               chunk_type    |-> chunk_type,
                               message_bytes |-> message_bytes,
                               crc           |-> crc])

(***************************************************************************)
(* The inputs of the model.                                                *)
(***************************************************************************)
\* raw bytes for ChunkType::try_from: the letters' edges, a digit, non-ASCII
RawBytes == {0, 49, 64, 65, 90, 91, 96, 97, 122, 123, 233}

\* bytes of the &str handed to from_str: R, S, u, t and the digit 1
StrBytes == {82, 83, 117, 116, 49}

\* type bytes of the chunks built and encoded: S, t and a non-ASCII byte
TypeBytes == {83, 116, 233}

\* payload bytes
DataBytes == {0, 255}

SeqsUpTo(S, n) == UNION {[1..k -> S] : k \in 0..n}

(***************************************************************************)
(* ChunkType construction: one call per step.                              *)
(***************************************************************************)
Idle ==
    /\ chunk = None /\ buf = <<>> /\ tamper = NoTamper /\ decoded = None
    /\ pc = "start"

Init ==
    /\ ctInput = NoInput /\ ctResult = None
    /\ Idle
    /\ png = <<>> /\ pngLog = <<>>

TypeFromBytes ==
    /\ ctInput = NoInput
    /\ \E value \in [1..4 -> RawBytes] :
          /\ ctInput' = [kind |-> "bytes", val |-> value]
          /\ ctResult' = ChunkTypeTryFrom(value)
    /\ UNCHANGED <<chunk, buf, tamper, decoded, pc, png, pngLog>>

TypeFromStr ==
    /\ ctInput = NoInput
    /\ \E s \in SeqsUpTo(StrBytes, MaxStrLen) :
          /\ ctInput' = [kind |-> "str", val |-> s]
          /\ ctResult' = from_str(s)
    /\ UNCHANGED <<chunk, buf, tamper, decoded, pc, png, pngLog>>

NextChunkType == TypeFromBytes \/ TypeFromStr

SpecChunkType == Init /\ [][NextChunkType]_vars

(***************************************************************************)
(* One chunk built, written, possibly damaged on the way, and read back.   *)
(***************************************************************************)
FlipBit(b, bit) == IF (b \div 2^bit) % 2 = 1 THEN b - 2^bit ELSE b + 2^bit

New ==
    /\ pc = "start"
    /\ \E value \in [1..4 -> TypeBytes], message_bytes \in SeqsUpTo(DataBytes, MaxData) :
          chunk' = ChunkNew(ChunkTypeTryFrom(value).val, message_bytes)
    /\ pc' = "built"
    /\ UNCHANGED <<ctInput, ctResult, buf, tamper, decoded, png, pngLog>>

AsBytes ==
    /\ pc = "built"
    /\ buf' = as_bytes(chunk)
    /\ pc' = "encoded"
    /\ UNCHANGED <<ctInput, ctResult, chunk, tamper, decoded, png, pngLog>>

\* one bit of the buffer changes; at is the 0-based byte offset
Flip ==
    /\ pc = "encoded" /\ tamper = NoTamper
    /\ \E at \in 0..(Len(buf) - 1), bit \in 0..7 :
          /\ buf' = [buf EXCEPT ![at + 1] = FlipBit(@, bit)]
          /\ tamper' = [kind |-> "flip", at |-> at, bit |-> bit]
    /\ UNCHANGED <<ctInput, ctResult, chunk, decoded, pc, png, pngLog>>

\* only the first n bytes of the buffer arrive
Truncate ==
    /\ pc = "encoded" /\ tamper = NoTamper
    /\ \E n \in 0..(Len(buf) - 1) :
          /\ buf' = SubSeq(buf, 1, n)
          /\ tamper' = [kind |-> "truncate", at |-> n, bit |-> 0]
    /\ UNCHANGED <<ctInput, ctResult, chunk, decoded, pc, png, pngLog>>

\* a byte follows the chunk in the buffer
Extend ==
    /\ pc = "encoded" /\ tamper = NoTamper
    /\ \E b \in DataBytes :
          /\ buf' = Append(buf, b)
          /\ tamper' = [kind |-> "extend", at |-> Len(buf), bit |-> 0]
    /\ UNCHANGED <<ctInput, ctResult, chunk, decoded, pc, png, pngLog>>

TryFrom ==
    /\ pc = "encoded"
    /\ decoded' = ChunkTryFrom(buf)
    /\ pc' = "decoded"
    /\ UNCHANGED <<ctInput, ctResult, chunk, buf, tamper, png, pngLog>>

\* the chunk read back is written again
ReEncode ==
    /\ pc = "decoded" /\ decoded.tag = "Ok"
    /\ buf' = as_bytes(decoded.val)
    /\ pc' = "reencoded"
    /\ UNCHANGED <<ctInput, ctResult, chunk, tamper, decoded, png, pngLog>>

NextChunk == New \/ AsBytes \/ Flip \/ Truncate \/ Extend \/ TryFrom \/ ReEncode

SpecChunk == Init /\ [][NextChunk]_vars

(***************************************************************************)
(* The chunk container Png (crate::png, used by commands.rs): its chunk    *)
(* sequence with append_chunk, remove_chunk and chunk_by_type.             *)
(***************************************************************************)
\* the mutant: the chunk pushed after the last one
Inserted_AtEnd(chunks, c) == Append(chunks, c)

\* c placed immediately before the last chunk of a sequence that has one
Inserted(chunks, c) ==
    SubSeq(chunks, 1, Len(chunks) - 1) \o <<c>> \o <<chunks[Len(chunks)]>>

\* append_chunk: the outcomes, each [res, chunks]; the position is undefined
\* on an empty sequence, where the call may push, do nothing or fail abruptly
append_chunk(chunks, c) ==
    IF Len(chunks) >= 1
    THEN {[res |-> Ok(<<>>), chunks |-> Inserted(chunks, c)]}
    ELSE {[res |-> Ok(<<>>), chunks |-> <<c>>],
          [res |-> Ok(<<>>), chunks |-> chunks],
          [res |-> Panic("no insert position"), chunks |-> chunks]}

\* the positions of the chunks whose type's string form equals type_str
Matches(chunks, type_str) ==
    {i \in 1..Len(chunks) : to_string(chunks[i].chunk_type) = type_str}

Min(S) == CHOOSE i \in S : \A j \in S : i <= j

\* the mutant: the scan keeps the last match
Position_Last(chunks, type_str) ==
    CHOOSE i \in Matches(chunks, type_str) :
        \A j \in Matches(chunks, type_str) : i >= j

\* the position the scan in sequence order stops at
Position(chunks, type_str) == Min(Matches(chunks, type_str))

Without(chunks, i) == SubSeq(chunks, 1, i - 1) \o SubSeq(chunks, i + 1, Len(chunks))

\* remove_chunk: [res, chunks]
remove_chunk(chunks, type_str) ==
    IF Matches(chunks, type_str) = {}
    THEN [res |-> Err("NotFound"), chunks |-> chunks]
    ELSE LET i == Position(chunks, type_str)
         IN  [res |-> Ok(chunks[i]), chunks |-> Without(chunks, i)]

\* chunk_by_type: Some(chunk) as Ok(chunk), None as None
chunk_by_type(chunks, type_str) ==
    IF Matches(chunks, type_str) = {} THEN None
    ELSE Ok(chunks[Position(chunks, type_str)])

\* IEND and RuSt
PngTypes == {<<73, 69, 78, 68>>, <<82, 117, 83, 116>>}

\* the types asked for: those and tEXt
AskedTypes == PngTypes \cup {<<116, 69, 88, 116>>}

\* the chunks of the model's images: every type with an empty payload, RuSt
\* also with a one byte payload
PngChunks ==
    {ChunkNew(ChunkTypeTryFrom(ty).val, <<>>) : ty \in PngTypes}
        \cup {ChunkNew(ChunkTypeTryFrom(<<82, 117, 83, 116>>).val, <<104>>)}

\* a Png as decoded from a file: any chunks in any order
InitPng ==
    /\ ctInput = NoInput /\ ctResult = None
    /\ Idle
    /\ png \in SeqsUpTo(PngChunks, MaxChunks)
    /\ pngLog = <<>>

CanCall ==
    /\ Len(pngLog) < MaxOps
    /\ \A i \in 1..Len(pngLog) : pngLog[i].res.tag # "Panic"

AppendChunk ==
    /\ CanCall
    /\ \E c \in PngChunks : \E out \in append_chunk(png, c) :
          /\ png' = out.chunks
          /\ pngLog' = Append(pngLog, [op |-> "append_chunk", chunk |-> c,
                                       type_str |-> <<>>, res |-> out.res,
                                       before |-> png])
    /\ UNCHANGED <<ctInput, ctResult, chunk, buf, tamper, decoded, pc>>

RemoveChunk ==
    /\ CanCall
    /\ \E ty \in AskedTypes :
          LET type_str == to_string(ChunkTypeTryFrom(ty).val)
              out == remove_chunk(png, type_str)
          IN  /\ png' = out.chunks
              /\ pngLog' = Append(pngLog, [op |-> "remove_chunk", chunk |-> None,
                                           type_str |-> type_str, res |-> out.res,
                                           before |-> png])
    /\ UNCHANGED <<ctInput, ctResult, chunk, buf, tamper, decoded, pc>>

ChunkByType ==
    /\ CanCall
    /\ \E ty \in AskedTypes :
          LET type_str == to_string(ChunkTypeTryFrom(ty).val)
          IN  pngLog' = Append(pngLog, [op |-> "chunk_by_type", chunk |-> None,
                                        type_str |-> type_str,
                                        res |-> chunk_by_type(png, type_str),
                                        before |-> png])
    /\ UNCHANGED <<ctInput, ctResult, chunk, buf, tamper, decoded, pc, png>>

NextPng == AppendChunk \/ RemoveChunk \/ ChunkByType

SpecPng == InitPng /\ [][NextPng]_vars

(***************************************************************************)
(* The properties.                                                         *)
(***************************************************************************)
Upper == 65..90

Lower == 97..122

Letter == Upper \cup Lower

\* C4: whatever built the ChunkType, is_valid() is true exactly when all four
\* bytes are ASCII letters and the third is an uppercase letter.
C4_IsValid ==
    ctResult.tag = "Ok" =>
        LET ct == ctResult.val
        IN  is_valid(ct) <=>
              /\ ct.first_byte \in Letter /\ ct.second_byte \in Letter
              /\ ct.third_byte \in Letter /\ ct.fourth_byte \in Letter
              /\ ct.third_byte \in Upper

\* four letters from raw bytes, the third lowercase: not valid
C4_Witness ==
    /\ ctInput.kind = "bytes" /\ ctResult.tag = "Ok"
    /\ ctInput.val = <<65, 122, 97, 90>>
    /\ ~is_valid(ctResult.val)

\* C5 as claimed: from_str returns a ChunkType only for exactly 4 letter
\* bytes, and an error value (never an abrupt failure, never a ChunkType made
\* of a prefix) for every other string.
C5_Original ==
    ctInput.kind = "str" =>
        LET s == ctInput.val
            wellFormed == Len(s) = 4 /\ \A i \in 1..Len(s) : s[i] \in Letter
        IN  /\ ctResult.tag = "Ok" => wellFormed
            /\ ~wellFormed => ctResult.tag = "Err"

\* C6 as claimed: each predicate follows the case of its byte, safe-to-copy
\* being true exactly when byte 4 is a lowercase letter.
C6_Original ==
    ctResult.tag = "Ok" =>
        LET ct == ctResult.val
        IN  /\ is_critical(ct) <=> ct.first_byte \in Upper
            /\ is_public(ct) <=> ct.second_byte \in Upper
            /\ is_reserved_bit_valid(ct) <=> ct.third_byte \in Upper
            /\ is_safe_to_copy(ct) <=> ct.fourth_byte \in Lower

\* C6 amended: is_critical, is_public and is_reserved_bit_valid are true
\* exactly when bytes 1, 2, 3 are uppercase letters; is_safe_to_copy is true
\* exactly when byte 4 is not an uppercase letter, which for a letter means
\* lowercase.
C6_Classification ==
    ctResult.tag = "Ok" =>
        LET ct == ctResult.val
        IN  /\ is_critical(ct) <=> ct.first_byte \in Upper
            /\ is_public(ct) <=> ct.second_byte \in Upper
            /\ is_reserved_bit_valid(ct) <=> ct.third_byte \in Upper
            /\ is_safe_to_copy(ct) <=> ct.fourth_byte \notin Upper
            /\ ct.fourth_byte \in Letter =>
                  (is_safe_to_copy(ct) <=> ct.fourth_byte \in Lower)

\* a raw type whose fourth byte is the digit 1 is reported safe to copy
C6_Witness ==
    /\ ctInput.kind = "bytes" /\ ctResult.tag = "Ok"
    /\ ctResult.val.fourth_byte = 49
    /\ is_safe_to_copy(ctResult.val)
    /\ is_critical(ctResult.val) /\ ~is_public(ctResult.val)

\* the buffer holds what as_bytes wrote and try_from has read it
ReadBack == pc = "decoded" /\ tamper.kind = "none"

\* C1 as claimed: reading back what as_bytes wrote for Chunk::new(ct, d)
\* succeeds and gives a chunk with the same length, type, payload and CRC.
C1_Original ==
    ReadBack => decoded.tag = "Ok" /\ decoded.val = chunk

\* the layout C7 states for chunk c
Layout(c) ==
    to_be_bytes(c.data_length) \o bytes(c.chunk_type) \o c.message_bytes
        \o to_be_bytes(c.crc)

\* C7 as claimed: as_bytes gives 12 + payload length bytes: big-endian
\* length, the 4 bytes of chunk_type().bytes(), payload, big-endian CRC; and
\* the type's string form is those same 4 bytes.
C7_Original ==
    /\ (pc = "encoded" /\ tamper.kind = "none") =>
          /\ buf = Layout(chunk)
          /\ Len(buf) = 12 + Len(chunk.message_bytes)
          /\ to_string(chunk.chunk_type) = bytes(chunk.chunk_type)
    /\ pc = "reencoded" =>
          /\ buf = Layout(decoded.val)
          /\ Len(buf) = 12 + Len(decoded.val.message_bytes)

\* every byte of the chunk's type is ASCII, so that as_bytes wrote 4 type bytes
AsciiType(c) == \A i \in 1..4 : bytes(c.chunk_type)[i] < 128

\* C2: one bit changed in the type, payload or CRC bytes of a chunk's
\* encoding makes try_from return the checksum error; and try_from returns
\* Ok only when the CRC stored in the buffer is the CRC-32 of type ++ payload.
C2_CrcGate ==
    /\ (pc = "decoded" /\ tamper.kind = "flip" /\ tamper.at >= 4 /\ AsciiType(chunk))
          => decoded = Err("checksum failed")
    /\ (pc = "decoded" /\ decoded.tag = "Ok") =>
          from_be_bytes(SubSeq(buf, Len(buf) - 3, Len(buf)))
              = checksum_ieee(bytes(decoded.val.chunk_type)
                                \o decoded.val.message_bytes)

\* a bit of a valid type's bytes was flipped and the chunk was refused
C2_Witness ==
    /\ pc = "decoded" /\ tamper.kind = "flip"
    /\ tamper.at \in 4..7
    /\ is_valid(chunk.chunk_type)
    /\ Len(chunk.message_bytes) >= 1
    /\ decoded.tag = "Err"

\* the buffer holds fewer bytes than its length field implies
Short(b) ==
    \/ Len(b) < 12
    \/ Exceeds(from_be_bytes(Slice(b, 0, 4)), Len(b) - 12)

\* C3 as claimed: on a buffer shorter than its declared length implies,
\* try_from returns an error value and never fails abruptly.
C3_Original ==
    (pc = "decoded" /\ Short(buf)) => decoded.tag = "Err"

\* crc and length agree with type and payload
Integrity(c) ==
    /\ c.crc = checksum_ieee(bytes(c.chunk_type) \o c.message_bytes)
    /\ 31 \notin c.data_length
    /\ SumBits(c.data_length, 0) = Len(c.message_bytes)

AppendThenRemove ==
    /\ Len(pngLog) >= 2
    /\ pngLog[Len(pngLog) - 1].op = "append_chunk"
    /\ pngLog[Len(pngLog)].op = "remove_chunk"
    /\ pngLog[Len(pngLog)].type_str
          = to_string(pngLog[Len(pngLog) - 1].chunk.chunk_type)

\* C8 as claimed: on every Image, also one that already holds a chunk of
\* c's type, append_chunk(c) then remove_chunk of c's type string returns a
\* chunk equal to c and leaves the chunks as they were before the append.
\* Stated here for the Images with at least one chunk, where append_chunk's
\* position is defined, so that a violation does not rest on the empty case.
C8_Original ==
    (AppendThenRemove /\ Len(pngLog[Len(pngLog) - 1].before) >= 1) =>
        /\ pngLog[Len(pngLog)].res = Ok(pngLog[Len(pngLog) - 1].chunk)
        /\ png = pngLog[Len(pngLog) - 1].before

\* the Image has a chunk, and none but possibly its last has the type type_str
OnlyLastMayMatch(chunks, type_str) ==
    /\ Len(chunks) >= 1
    /\ \A i \in 1..(Len(chunks) - 1) : to_string(chunks[i].chunk_type) # type_str

\* C8 amended: on an Image that has at least one chunk and in which no chunk
\* other than the last has c's type, append_chunk(c) then remove_chunk of c's
\* type string returns a chunk equal to c and leaves the chunks, count and
\* order, as they were before the append.
C8_AppendRemove ==
    (AppendThenRemove
        /\ OnlyLastMayMatch(pngLog[Len(pngLog) - 1].before,
                            pngLog[Len(pngLog)].type_str)) =>
        /\ pngLog[Len(pngLog)].res = Ok(pngLog[Len(pngLog) - 1].chunk)
        /\ png = pngLog[Len(pngLog) - 1].before

\* appended before a last chunk of the same type and another payload, then
\* removed again
C8_Witness ==
    /\ AppendThenRemove
    /\ LET before == pngLog[Len(pngLog) - 1].before
           c == pngLog[Len(pngLog) - 1].chunk
       IN  /\ OnlyLastMayMatch(before, pngLog[Len(pngLog)].type_str)
           /\ Len(before) >= 2
           /\ before[Len(before)].chunk_type = c.chunk_type
           /\ before[Len(before)] # c
           /\ pngLog[Len(pngLog)].res = Ok(c)

\* every call so far was an append_chunk
OnlyAppends == \A i \in 1..Len(pngLog) : pngLog[i].op = "append_chunk"

\* the chunks appended so far, in call order
Appended == [i \in 1..Len(pngLog) |-> pngLog[i].chunk]

\* C9: on an Image with at least one chunk, append_chunk(c) puts c
\* immediately before the chunk that was last; after any number of appends
\* the last chunk is the one that was last before the first append, and the
\* chunks present before keep their order (the appended ones sit, in call
\* order, between them and the last).
C9_TrailerStaysLast ==
    (Len(pngLog) >= 1 /\ OnlyAppends /\ Len(pngLog[1].before) >= 1) =>
        LET first == pngLog[1].before
            prev == pngLog[Len(pngLog)].before
        IN  /\ png[Len(png)] = first[Len(first)]
            /\ png = SubSeq(first, 1, Len(first) - 1) \o Appended
                        \o <<first[Len(first)]>>
            /\ Len(png) = Len(prev) + 1
            /\ png[Len(png) - 1] = pngLog[Len(pngLog)].chunk
            /\ png[Len(png)] = prev[Len(prev)]

\* two appends to an Image that ends in IEND and holds another chunk
C9_Witness ==
    /\ Len(pngLog) >= 2 /\ OnlyAppends
    /\ Len(pngLog[1].before) >= 2
    /\ bytes(pngLog[1].before[Len(pngLog[1].before)].chunk_type) = <<73, 69, 78, 68>>
    /\ pngLog[1].chunk # pngLog[2].chunk
    /\ bytes(png[Len(png)].chunk_type) = <<73, 69, 78, 68>>

=============================================================================
